---- MODULE Spec2Model ----
(***************************************************************************)
(* Model of the hand-written codecs of src/compression_demo.py: the        *)
(* run-length codec (rle_encode, rle_decode) and the Huffman coder         *)
(* (HuffmanNode, build_huffman_tree on top of heapq, build_codes,          *)
(* huffman_encode).  The functions are pure, so each is an operator that   *)
(* computes what the Python computes; the specification draws an input     *)
(* buffer and applies the functions to it.  SpecCalls interleaves two      *)
(* calls, SpecTree takes build_huffman_tree one iteration at a time,       *)
(* SpecBench models benchmark_compression, benchmark_pqc and               *)
(* benchmark_combined of src/benchmark_pqc_compression.py, and SpecText    *)
(* run_length_encode of src/resources/rle.py.                              *)
(***************************************************************************)
EXTENDS Integers, Sequences, FiniteSets, TLC

\* ------------------------------------------------------------------ bounds
\* Short buffers: every byte sequence of length 0..MaxLen over 0..MaxByte.
MaxLen == 5
MaxByte == 3
\* Long buffers: up to MaxRuns runs, each of a length around the count cap.
MaxRuns == 2

\* Concurrent calls: buffers of length 0..MaxCallLen over 0..MaxCallByte.
MaxCallLen == 2
MaxCallByte == 2

\* The count cap of rle_encode (count < 255) and the largest byte value.
MaxCount == 255
ByteMax == 255

Bytes == 0 .. MaxByte

\* ------------------------------------------------------------------ helpers
\* [x] * n
Repeat(x, n) == [i \in 1 .. n |-> x]

\* A call either returns a value or raises.
Return(v) == [exc |-> "none", val |-> v]
Raise(e) == [exc |-> e, val |-> <<>>]

\* bytes(list): every element must be in range(256).
ToBytes(list) ==
    IF \A i \in 1 .. Len(list) : list[i] \in 0 .. ByteMax
    THEN Return(list)
    ELSE Raise("ValueError")

\* ------------------------------------------------------------------ RLE
\* A limit that is one too small (count < 254).
RunLimitOffByOne == MaxCount - 1

\* The limit of a run's count: the loop extends a run while count < limit.
RunLimit == MaxCount

\* Appends that leave the count of a single byte out.
EmitCompact(encoded, prev, count) ==
    IF count = 1 THEN encoded \o <<prev>> ELSE encoded \o <<prev, count>>

\* encoded.append(prev); encoded.append(count)
Emit(encoded, prev, count) == encoded \o <<prev, count>>

\* An iteration that extends the run whatever its count (no "count < 255").
RleStepNoCap(st, byte) ==
    IF byte = st.prev
    THEN [st EXCEPT !.count = st.count + 1]
    ELSE [prev |-> byte, count |-> 1,
          encoded |-> st.encoded \o <<st.prev, st.count>>]

\* An iteration that starts a new run at every byte.
RleStepNoExtend(st, byte) ==
    [prev |-> byte, count |-> 1, encoded |-> st.encoded \o <<st.prev, st.count>>]

\* One iteration of "for byte in data[1:]" on the loop's variables.
RleStep(st, byte) ==
    IF byte = st.prev /\ st.count < RunLimit
    THEN [st EXCEPT !.count = st.count + 1]
    ELSE [prev |-> byte, count |-> 1, encoded |-> Emit(st.encoded, st.prev, st.count)]

\* The iterations for data[lo..hi] in order, from loop state st.  The range is
\* halved, and the first half's state is evaluated (count is always >= 1)
\* before the second half starts, so that the depth of evaluation is
\* logarithmic in the length of the buffer.
RECURSIVE RleLoop(_, _, _, _)
RleLoop(data, lo, hi, st) ==
    IF lo > hi
    THEN st
    ELSE IF lo = hi
         THEN RleStep(st, data[lo])
         ELSE LET mid == (lo + hi) \div 2
                  half == RleLoop(data, lo, mid, st)
              IN  IF half.count >= 1
                  THEN RleLoop(data, mid + 1, hi, half)
                  ELSE half

\* An encoder without "if not data": data[0] of an empty buffer.
rle_encodeNoEmptyCheck(data) ==
    IF data = <<>>
    THEN Raise("IndexError")
    ELSE LET st == RleLoop(data, 2, Len(data),
                           [prev |-> data[1], count |-> 1, encoded |-> <<>>])
         IN  ToBytes(Emit(st.encoded, st.prev, st.count))

rle_encode(data) ==
    IF data = <<>>
    THEN Return(<<>>)
    ELSE LET st == RleLoop(data, 2, Len(data),
                           [prev |-> data[1], count |-> 1, encoded |-> <<>>])
         IN  ToBytes(Emit(st.encoded, st.prev, st.count))

\* A decoder whose bound check is off by one (i + 2 < len(data)): it drops
\* the last pair.
RECURSIVE RleDecodeLoopDropLast(_, _, _)
RleDecodeLoopDropLast(data, i, decoded) ==
    IF i >= Len(data)
    THEN decoded
    ELSE IF i + 2 < Len(data)
         THEN RleDecodeLoopDropLast(data, i + 2,
                                    decoded \o Repeat(data[i + 1], data[i + 2]))
         ELSE RleDecodeLoopDropLast(data, i + 2, decoded)

\* A decoder that takes a count of 0 for 1.
RECURSIVE RleDecodeLoopAtLeastOnce(_, _, _)
RleDecodeLoopAtLeastOnce(data, i, decoded) ==
    IF i >= Len(data)
    THEN decoded
    ELSE IF i + 1 < Len(data)
         THEN RleDecodeLoopAtLeastOnce(
                  data, i + 2,
                  decoded \o Repeat(data[i + 1], IF data[i + 2] = 0 THEN 1 ELSE data[i + 2]))
         ELSE RleDecodeLoopAtLeastOnce(data, i + 2, decoded)

\* for i in range(0, len(data), 2) -- i is the 0-based index of the pair.
RECURSIVE RleDecodeLoop(_, _, _)
RleDecodeLoop(data, i, decoded) ==
    IF i >= Len(data)
    THEN decoded
    ELSE IF i + 1 < Len(data)
         THEN RleDecodeLoop(data, i + 2, decoded \o Repeat(data[i + 1], data[i + 2]))
         ELSE RleDecodeLoop(data, i + 2, decoded)

\* A decoder that reads the count of every value byte (no "i + 1 < len(data)").
rle_decodeUnchecked(data) ==
    IF Len(data) % 2 = 1
    THEN Raise("IndexError")
    ELSE Return(RleDecodeLoop(data, 0, <<>>))

rle_decode(data) == Return(RleDecodeLoop(data, 0, <<>>))

\* ------------------------------------------------------------------ Huffman
\* None as the char of an internal node; a byte is never negative.
NoneChar == -1

\* A reference to a node is <<>> (None) or <<node>>.
NoneNode == <<>>

\* HuffmanNode(char, freq)
HuffmanNode(char, freq) ==
    [char |-> char, freq |-> freq, left |-> NoneNode, right |-> NoneNode]

\* A comparison the wrong way round.
LtReversed(self, other) == self.freq > other.freq

\* HuffmanNode.__lt__
Lt(self, other) == self.freq < other.freq

\* Counter(data).items(): <<char, freq>> pairs in order of first occurrence.
RECURSIVE CounterLoop(_, _, _)
CounterLoop(data, i, items) ==
    IF i > Len(data)
    THEN items
    ELSE LET seen == {k \in 1 .. Len(items) : items[k][1] = data[i]}
         IN  IF seen = {}
             THEN CounterLoop(data, i + 1, Append(items, <<data[i], 1>>))
             ELSE LET k == CHOOSE k \in seen : TRUE
                  IN  CounterLoop(data, i + 1,
                                  [items EXCEPT ![k] = <<data[i], items[k][2] + 1>>])

Counter(data) == CounterLoop(data, 1, <<>>)

\* heapq works on a list with 0-based positions: heap[pos] is At(heap, pos).
At(heap, pos) == heap[pos + 1]
Put(heap, pos, item) == [heap EXCEPT ![pos + 1] = item]

\* heapq._siftdown: the loop "while pos > startpos".
RECURSIVE SiftDownLoop(_, _, _, _)
SiftDownLoop(heap, startpos, pos, newitem) ==
    IF pos > startpos
    THEN LET parentpos == (pos - 1) \div 2
             parent == At(heap, parentpos)
         IN  IF Lt(newitem, parent)
             THEN SiftDownLoop(Put(heap, pos, parent), startpos, parentpos, newitem)
             ELSE Put(heap, pos, newitem)
    ELSE Put(heap, pos, newitem)

SiftDown(heap, startpos, pos) == SiftDownLoop(heap, startpos, pos, At(heap, pos))

\* heapq._siftup: the loop "while childpos < endpos" bubbles the smaller child
\* up until a leaf is hit, then newitem is sifted down from there.
RECURSIVE SiftUpLoop(_, _, _, _)
SiftUpLoop(heap, startpos, pos, newitem) ==
    LET endpos == Len(heap)
        childpos == 2 * pos + 1
        rightpos == childpos + 1
        smaller == IF rightpos < endpos /\ ~Lt(At(heap, childpos), At(heap, rightpos))
                   THEN rightpos
                   ELSE childpos
    IN  IF childpos < endpos
        THEN SiftUpLoop(Put(heap, pos, At(heap, smaller)), startpos, smaller, newitem)
        ELSE SiftDown(Put(heap, pos, newitem), startpos, pos)

SiftUp(heap, pos) == SiftUpLoop(heap, pos, pos, At(heap, pos))

\* heapq.heapify: for i in reversed(range(n // 2)): _siftup(x, i)
RECURSIVE HeapifyLoop(_, _)
HeapifyLoop(heap, i) ==
    IF i < 0 THEN heap ELSE HeapifyLoop(SiftUp(heap, i), i - 1)

Heapify(heap) == HeapifyLoop(heap, Len(heap) \div 2 - 1)

\* A push that only appends (heap.append(item)).
HeapPushAppend(heap, item) == Append(heap, item)

\* heapq.heappush: append, then sift the new item down from the end.
HeapPush(heap, item) == SiftDown(Append(heap, item), 0, Len(heap))

\* A pop of the list, not of the heap (heap.pop()).
HeapPopLast(heap) ==
    [item |-> heap[Len(heap)], heap |-> SubSeq(heap, 1, Len(heap) - 1)]

\* heapq.heappop: the returned item and the heap left.
HeapPop(heap) ==
    LET lastelt == heap[Len(heap)]
        rest == SubSeq(heap, 1, Len(heap) - 1)
    IN  IF rest # <<>>
        THEN [item |-> rest[1], heap |-> SiftUp(Put(rest, 0, lastelt), 0)]
        ELSE [item |-> lastelt, heap |-> rest]

\* A merge that hangs the first node popped on the right.
MergeSwapped(left, right) ==
    [char |-> NoneChar, freq |-> left.freq + right.freq,
     left |-> <<right>>, right |-> <<left>>]

\* A merge that keeps the first node popped only.
MergeLeftOnly(left, right) ==
    [char |-> NoneChar, freq |-> left.freq + right.freq,
     left |-> <<left>>, right |-> NoneNode]

\* The node made of the two popped nodes.
Merge(left, right) ==
    [char |-> NoneChar, freq |-> left.freq + right.freq,
     left |-> <<left>>, right |-> <<right>>]

\* An iteration that reads the right node at heap[0] and leaves it queued.
MergeIterationPeek(heap) ==
    LET p1 == HeapPop(heap)
    IN  HeapPush(p1.heap, Merge(p1.item, p1.heap[1]))

\* One iteration of "while len(heap) > 1": the heap after it.
MergeIteration(heap) ==
    LET p1 == HeapPop(heap)
        p2 == HeapPop(p1.heap)
    IN  HeapPush(p2.heap, Merge(p1.item, p2.item))

\* while len(heap) > 1: pop two, push their merge.
RECURSIVE MergeLoop(_)
MergeLoop(heap) ==
    IF Len(heap) > 1
    THEN LET p1 == HeapPop(heap)
             p2 == HeapPop(p1.heap)
         IN  MergeLoop(HeapPush(p2.heap, Merge(p1.item, p2.item)))
    ELSE heap

\* The heap at the start of each iteration of "while len(heap) > 1".
RECURSIVE MergeSteps(_)
MergeSteps(heap) ==
    IF Len(heap) > 1
    THEN LET p1 == HeapPop(heap)
             p2 == HeapPop(p1.heap)
         IN  <<heap>> \o MergeSteps(HeapPush(p2.heap, Merge(p1.item, p2.item)))
    ELSE <<>>

\* A list with one leaf of frequency 1 for each byte of the buffer.
LeavesPerByte(data) == [k \in 1 .. Len(data) |-> HuffmanNode(data[k], 1)]

\* The list of leaves before heapify.
Leaves(data) ==
    LET items == Counter(data)
    IN  [k \in 1 .. Len(items) |-> HuffmanNode(items[k][1], items[k][2])]

\* build_huffman_tree: a reference to the root, or None.
build_huffman_tree(data) ==
    LET heap == MergeLoop(Heapify(Leaves(data)))
    IN  IF heap # <<>> THEN <<heap[1]>> ELSE NoneNode

\* codebook[char] = prefix
SetItem(codebook, key, value) ==
    [k \in DOMAIN codebook \cup {key} |-> IF k = key THEN value ELSE codebook[k]]

\* A test of the char for truth ("if node.char:"), which byte 0 fails.
HasCharTruthy(n) == n.char # NoneChar /\ n.char # 0

\* Whether build_codes records a code at this node.
HasChar(n) == n.char # NoneChar

\* A traversal that appends "0" on both sides.
RECURSIVE BuildCodesSameBit(_, _, _)
BuildCodesSameBit(node, prefix, codebook) ==
    IF node # NoneNode
    THEN LET n == node[1]
             here == IF n.char # NoneChar
                     THEN [k \in DOMAIN codebook \cup {n.char} |->
                              IF k = n.char THEN prefix ELSE codebook[k]]
                     ELSE codebook
             lhs == BuildCodesSameBit(n.left, prefix \o <<"0">>, here)
         IN  BuildCodesSameBit(n.right, prefix \o <<"0">>, lhs)
    ELSE codebook

\* build_codes(node, prefix, codebook) with the codebook given.
RECURSIVE BuildCodes(_, _, _)
BuildCodes(node, prefix, codebook) ==
    IF node # NoneNode
    THEN LET n == node[1]
             here == IF HasChar(n) THEN SetItem(codebook, n.char, prefix) ELSE codebook
             lhs == BuildCodes(n.left, prefix \o <<"0">>, here)
         IN  BuildCodes(n.right, prefix \o <<"1">>, lhs)
    ELSE codebook

\* build_codes(node): prefix "" and a fresh codebook.
EmptyDict == [k \in {} |-> <<>>]
build_codes(node) == BuildCodes(node, <<>>, EmptyDict)

\* ''.join(codes[byte] for byte in data); a missing key raises KeyError.
RECURSIVE Join(_, _, _)
Join(codes, data, i) ==
    IF i > Len(data) THEN <<>> ELSE codes[data[i]] \o Join(codes, data, i + 1)

\* int(s, 2) on a non-empty string of binary digits.
RECURSIVE ParseBits(_, _)
ParseBits(s, n) ==
    IF n = 0
    THEN 0
    ELSE 2 * ParseBits(s, n - 1) + (IF s[n] = "1" THEN 1 ELSE 0)

RECURSIVE Pow(_, _)
Pow(b, e) == IF e = 0 THEN 1 ELSE b * Pow(b, e - 1)

\* int(s, 2): the empty string is not a number.
ParseInt2(s) ==
    IF s = <<>> THEN Raise("ValueError") ELSE Return(ParseBits(s, Len(s)))

\* n.to_bytes(length, 'big')
ToBytesBig(n, length) ==
    IF n >= Pow(256, length)
    THEN Raise("OverflowError")
    ELSE Return([i \in 1 .. length |-> (n \div Pow(256, length - i)) % 256])

\* The bit string after padding: padding = 8 - len % 8, added unless it is 8.
Pad(bits) ==
    LET padding == 8 - (Len(bits) % 8)
    IN  IF padding # 8 THEN bits \o Repeat("0", padding) ELSE bits

\* huffman_encode from the join on: the packed bytes and the table.
PackCodes(codes, data) ==
    IF \E i \in 1 .. Len(data) : data[i] \notin DOMAIN codes
    THEN Raise("KeyError")
    ELSE LET encoded_bits == Pad(Join(codes, data, 1))
             number == ParseInt2(encoded_bits)
         IN  IF number.exc # "none"
             THEN Raise(number.exc)
             ELSE LET encoded_bytes ==
                          ToBytesBig(number.val, Len(encoded_bits) \div 8)
                  IN  IF encoded_bytes.exc # "none"
                      THEN Raise(encoded_bytes.exc)
                      ELSE Return(<<encoded_bytes.val, codes>>)

huffman_encode(data) ==
    IF data = <<>>
    THEN Return(<<<<>>, EmptyDict>>)
    ELSE LET tree == build_huffman_tree(data)
             codes == build_codes(tree)
         IN  PackCodes(codes, data)

\* A codebook parameter whose default is a dict made once ("codebook={}").
DefaultCodebookDict == <<EmptyDict>>

\* The default of build_codes' codebook parameter, made once when the
\* function is defined and shared by all calls: None (<<>>), or <<dict>>.
DefaultCodebook == <<>>

\* A call build_codes(tree) when the default object is dflt: the table it
\* returns and the default object after it.  A dict given as codebook is
\* filled in place; None is replaced by a fresh dict.
build_codes_default(node, dflt) ==
    LET codebook == IF dflt = <<>> THEN EmptyDict ELSE dflt[1]
        filled == BuildCodes(node, <<>>, codebook)
    IN  [codes |-> filled, default |-> IF dflt = <<>> THEN <<>> ELSE <<filled>>]

\* An emptiness test that never holds (the "if not data" return left out).
NotDataNever(data) == FALSE

\* huffman_encode's "if not data"
NotData(data) == data = <<>>

\* ------------------------------------------------------------------ inputs
RECURSIVE SeqsUpTo(_, _)
SeqsUpTo(S, n) ==
    IF n = 0
    THEN {<<>>}
    ELSE LET shorter == SeqsUpTo(S, n - 1)
         IN  shorter \cup {Append(s, x) : s \in {t \in shorter : Len(t) = n - 1}, x \in S}

ShortBuffers == SeqsUpTo(Bytes, MaxLen)

\* Run lengths on both sides of the cap and of twice the cap.
RunLens == {1, MaxCount - 1, MaxCount, MaxCount + 1, 2 * MaxCount, 2 * MaxCount + 1}
RunValues == {0, 1}

RECURSIVE Expand(_)
Expand(runs) ==
    IF runs = <<>>
    THEN <<>>
    ELSE Repeat(runs[1][1], runs[1][2]) \o Expand(Tail(runs))

LongBuffers == {Expand(r) : r \in SeqsUpTo(RunValues \X RunLens, MaxRuns)}

Inputs == ShortBuffers \cup LongBuffers

\* ------------------------------------------------------------------ decoder
\* The eight bits of a byte, most significant first.
ByteBits(b) == [i \in 1 .. 8 |-> IF (b \div Pow(2, 8 - i)) % 2 = 1 THEN "1" ELSE "0"]

RECURSIVE UnpackBits(_)
UnpackBits(bytes) ==
    IF bytes = <<>> THEN <<>> ELSE ByteBits(bytes[1]) \o UnpackBits(Tail(bytes))

\* Walks the bits; emits a byte each time the bits read since the last emitted
\* byte are the code of a byte; stops after count bytes.
RECURSIVE DecodeLoop(_, _, _, _, _, _)
DecodeLoop(bits, i, cur, codes, count, out) ==
    IF Len(out) = count
    THEN Return(out)
    ELSE IF i > Len(bits)
         THEN Raise("InvalidEncoding")
         ELSE LET now == Append(cur, bits[i])
                  hit == {k \in DOMAIN codes : codes[k] = now}
              IN  IF hit # {}
                  THEN DecodeLoop(bits, i + 1, <<>>, codes, count,
                                  Append(out, CHOOSE k \in hit : TRUE))
                  ELSE DecodeLoop(bits, i + 1, now, codes, count, out)

huffman_decode(bytes, codes, count) ==
    DecodeLoop(UnpackBits(bytes), 1, <<>>, codes, count, <<>>)

\* ------------------------------------------------------------------ benchmark
\* benchmark_pqc_compression.py.  A data argument is a bytes object or a str
\* (kind) of some content (val); the libraries accept bytes only.  Times are
\* differences of time.perf_counter() readings, counted in microseconds.
MaxBenchLen == 2
MaxCompressed == 2

\* The benchmarks look at the length of the data only: buffers of zeros.
BenchBuffers == {Repeat(0, n) : n \in 0 .. MaxBenchLen}
BenchData == [kind : {"bytes", "str"}, val : BenchBuffers]
CompAlgorithms == {"zlib", "lz4", "zstd", "rle"}
PqcAlgorithms == {"Kyber512", "Kyber768", "Kyber1024", "NoSuchKem"}

\* What the run draws from the libraries and the clock: the size of a
\* compressed buffer (a codec's output has a header, so it is never empty),
\* the times measured, and whether liboqs has the mechanism asked for.
CompressedSizes == 1 .. MaxCompressed
Ticks == {0, 1}

len(x) == Len(x.val)

\* a / b: the quotient, kept as the pair <<a, b>>; b = 0 raises.
TrueDiv(a, b) == IF b = 0 THEN Raise("ZeroDivisionError") ELSE Return(<<a, b>>)

\* A test of the algorithm's name alone, whether the import succeeded or not.
UsesLibraryUnchecked(algorithm, name, has) == algorithm = name

\* algorithm == 'lz4' and HAS_LZ4 / algorithm == 'zstd' and HAS_ZSTD
UsesLibrary(algorithm, name, has) == algorithm = name /\ has

\* The branch the if/elif chain takes, on both sides: a codec or pass-through.
Codec(algorithm, has_lz4, has_zstd) ==
    IF algorithm = "zlib" THEN "zlib"
    ELSE IF UsesLibrary(algorithm, "lz4", has_lz4) THEN "lz4"
    ELSE IF UsesLibrary(algorithm, "zstd", has_zstd) THEN "zstd"
    ELSE "none"

\* compressed = <library>.compress(data): the name of a library whose import
\* failed is not bound; a library takes bytes only; its output has the size
\* the library gives it and decompresses to the data.
Compress(codec, data, size, has_lz4, has_zstd) ==
    IF codec = "none"
    THEN Return(data)
    ELSE IF (codec = "lz4" /\ ~has_lz4) \/ (codec = "zstd" /\ ~has_zstd)
         THEN Raise("NameError")
         ELSE IF data.kind # "bytes"
              THEN Raise("TypeError")
              ELSE Return([kind |-> "bytes", val |-> Repeat(0, size),
                           codec |-> codec, plain |-> data])

\* decompressed = <library>.decompress(compressed), or data on pass-through.
Decompress(codec, compressed, data) ==
    IF codec = "none" THEN Return(data) ELSE Return(compressed.plain)

\* except Exception as e: results['error'] = str(e); results['success'] = False
Failed(res0, e) == SetItem(SetItem(res0, "error", e), "success", FALSE)

benchmark_compression(data, algorithm, has_lz4, has_zstd, size, ctime, dtime) ==
    LET results0 == [algorithm |-> algorithm, original_size |-> len(data),
                     compressed_size |-> 0, compression_time |-> 0,
                     decompression_time |-> 0, compression_ratio |-> 0,
                     throughput_mbps |-> 0]
        codec == Codec(algorithm, has_lz4, has_zstd)
        compressed == Compress(codec, data, size, has_lz4, has_zstd)
    IN  IF compressed.exc # "none"
        THEN Failed(results0, compressed.exc)
        ELSE LET results1 == [results0 EXCEPT !.compression_time = ctime,
                                              !.compressed_size = len(compressed.val)]
                 decompressed == Decompress(codec, compressed.val, data)
                 results2 == [results1 EXCEPT !.decompression_time = dtime]
                 results3 == IF results2.compressed_size > 0
                             THEN [results2 EXCEPT !.compression_ratio =
                                       <<len(data), results2.compressed_size>>]
                             ELSE results2
                 total_time == results3.compression_time + results3.decompression_time
                 results4 == IF total_time > 0
                             THEN [results3 EXCEPT !.throughput_mbps =
                                       <<len(data) * 1000000, 1024 * 1024 * total_time>>]
                             ELSE results3
             IN  SetItem(results4, "success", decompressed.val = data)

\* The key and ciphertext sizes of the mechanisms: the table of the simulated
\* results, which are also the sizes liboqs gives for these mechanisms.
sizes ==
    [Kyber512 |-> [pk |-> 800, sk |-> 1632, ct |-> 768],
     Kyber768 |-> [pk |-> 1184, sk |-> 2400, ct |-> 1088],
     Kyber1024 |-> [pk |-> 1568, sk |-> 3168, ct |-> 1568]]

\* sizes.get(algorithm, {'pk': 1184, 'sk': 2400, 'ct': 1088})
SizesGet(algorithm) ==
    IF algorithm \in DOMAIN sizes
    THEN sizes[algorithm]
    ELSE [pk |-> 1184, sk |-> 2400, ct |-> 1088]

\* benchmark_pqc.  With liboqs, oqs.KeyEncapsulation(algorithm) raises for a
\* name the library does not have (supported says whether it has a name of
\* the table), the three times are measured (ktime) and the secret recovered
\* is the secret shared; without it, the results are the simulated ones.
benchmark_pqc(algorithm, has_oqs, supported, ktime) ==
    LET results0 == [algorithm |-> algorithm, pk_size |-> 0, sk_size |-> 0,
                     ct_size |-> 0, keygen_time |-> 0, encap_time |-> 0,
                     decap_time |-> 0]
        s == SizesGet(algorithm)
    IN  IF has_oqs
        THEN IF algorithm \in DOMAIN sizes /\ supported
             THEN SetItem([results0 EXCEPT !.keygen_time = ktime[1],
                                           !.pk_size = s.pk,
                                           !.sk_size = s.sk,
                                           !.encap_time = ktime[2],
                                           !.ct_size = s.ct,
                                           !.decap_time = ktime[3]],
                          "success", TRUE)
             ELSE Failed(results0, "MechanismNotSupportedError")
        ELSE SetItem(SetItem([results0 EXCEPT !.pk_size = s.pk,
                                              !.sk_size = s.sk,
                                              !.ct_size = s.ct,
                                              !.keygen_time = 1000,
                                              !.encap_time = 1500,
                                              !.decap_time = 1500],
                             "success", TRUE),
                     "simulated", TRUE)

\* A sum that takes the public key for the ciphertext.
TotalTransmissionPk(comp, pqc) == comp.compressed_size + pqc.pk_size

\* comp_results['compressed_size'] + pqc_results['ct_size']
TotalTransmission(comp, pqc) == comp.compressed_size + pqc.ct_size

\* d1 with the entries of d2 set.
Update(d1, d2) ==
    [k \in DOMAIN d1 \cup DOMAIN d2 |-> IF k \in DOMAIN d2 THEN d2[k] ELSE d1[k]]

\* The try block of benchmark_combined, given what the two benchmarks
\* returned: the exception that ends it, if any, and results as it is then.
CombinedTry(data, pqc_alg, comp_alg, comp, pqc) ==
    LET results0 == [pqc_algorithm |-> pqc_alg, compression |-> comp_alg,
                     original_size |-> len(data), success |-> FALSE]
        results1 == Update(results0,
                           [compressed_size |-> comp.compressed_size,
                            compression_time |-> comp.compression_time,
                            decompression_time |-> comp.decompression_time,
                            compression_ratio |-> comp.compression_ratio,
                            pqc_overhead |-> pqc.ct_size,
                            keygen_time |-> pqc.keygen_time,
                            encap_time |-> pqc.encap_time,
                            decap_time |-> pqc.decap_time,
                            total_transmission |-> TotalTransmission(comp, pqc),
                            total_time |-> comp.compression_time
                                           + comp.decompression_time
                                           + pqc.keygen_time
                                           + pqc.encap_time
                                           + pqc.decap_time])
        savings == TrueDiv((len(data) - results1.total_transmission) * 100, len(data))
    IN  IF savings.exc # "none"
        THEN [exc |-> savings.exc, val |-> results1]
        ELSE [exc |-> "none",
              val |-> Update(results1,
                             [bandwidth_savings |-> savings.val,
                              success |-> comp.success /\ pqc.success])]

\* A function without the handler: the exception leaves it.
benchmark_combinedNoHandler(data, pqc_alg, comp_alg, comp, pqc) ==
    LET try == CombinedTry(data, pqc_alg, comp_alg, comp, pqc)
    IN  IF try.exc # "none" THEN Raise(try.exc) ELSE Return(try.val)

\* benchmark_combined, given what the two benchmarks returned:
\* except Exception as e: results['error'] = str(e); return results
benchmark_combined(data, pqc_alg, comp_alg, comp, pqc) ==
    LET try == CombinedTry(data, pqc_alg, comp_alg, comp, pqc)
    IN  IF try.exc # "none"
        THEN Return(SetItem(try.val, "error", try.exc))
        ELSE Return(try.val)

\* ------------------------------------------------------------------ rle.py
\* resources/rle.py.  A string is a sequence of characters.
MaxTextLen == 5
MaxTextRuns == 2

Letters == {"A", "B", "C"}

\* The decimal digit of d < 10.
Digit(d) == <<"0", "1", "2", "3", "4", "5", "6", "7", "8", "9">>[d + 1]

\* A conversion that keeps the last digit only.
StrLastDigit(n) == <<Digit(n % 10)>>

\* str(count) of a count >= 1: its decimal digits, the most significant first.
RECURSIVE Str(_)
Str(n) == IF n < 10 THEN <<Digit(n)>> ELSE Str(n \div 10) \o <<Digit(n % 10)>>

\* One iteration of "for i in range(1, n)": i is the 0-based index.
TextStep(st, S, i) ==
    IF S[i + 1] = S[i]
    THEN [st EXCEPT !.count = st.count + 1]
    ELSE [result |-> st.result \o Str(st.count) \o <<S[i]>>, count |-> 1]

\* The iterations for i in lo..hi in order, from loop state st.  The range is
\* halved and the first half's state evaluated before the second half starts,
\* as in RleLoop.
RECURSIVE TextLoop(_, _, _, _)
TextLoop(S, lo, hi, st) ==
    IF lo > hi
    THEN st
    ELSE IF lo = hi
         THEN TextStep(st, S, lo)
         ELSE LET mid == (lo + hi) \div 2
                  half == TextLoop(S, lo, mid, st)
              IN  IF half.count >= 1
                  THEN TextLoop(S, mid + 1, hi, half)
                  ELSE half

run_length_encode(S) ==
    IF S = <<>>
    THEN Return(<<>>)
    ELSE LET n == Len(S)
             st == TextLoop(S, 1, n - 1, [result |-> <<>>, count |-> 1])
         IN  Return(st.result \o Str(st.count) \o <<S[n]>>)

\* The strings encoded: the short ones, and those of up to MaxTextRuns runs
\* whose lengths have two digits or pass the cap of the byte codec.
ShortTexts == SeqsUpTo(Letters, MaxTextLen)
TextRunLens == {9, 10, 11, MaxCount + 1}
LongTexts == {Expand(r) : r \in SeqsUpTo({"A", "B"} \X TextRunLens, MaxTextRuns)}
Texts == ShortTexts \cup LongTexts

\* ------------------------------------------------------------------ state
\* data: the input buffer.  pc: which calls have been made on it.
\* encoded, decoded: the results of rle_encode(data), rle_decode(encoded).
\* rawdec: the result of rle_decode(data), the buffer taken as encoded input.
\* tree, table: build_huffman_tree(data), build_codes(tree).
\* merges: the heap at the start of each iteration of the merge loop.
\* huff: the result of huffman_encode(data); hdecoded: its decoding.
\* heap: the queue of build_huffman_tree while its merge loop runs.
VARIABLES data, pc, encoded, decoded, rawdec, tree, merges, table, huff, hdecoded, heap

\* Two calls of one function, each on its own buffer, their steps interleaved.
\* op: the function.  given: the buffers passed.  cdata: each call's data.
\* cpc: where each call is.  rst: the loop variables of rle_encode (i is the
\* index of the next byte).  ctree, ccodes: the tree and codes of
\* huffman_encode.  res: what each call returned.  codebook_default: the
\* default object of build_codes' codebook parameter.  overlapped: whether a
\* call has taken a step while the other was between its first and last.
VARIABLES op, given, cdata, cpc, rst, ctree, ccodes, res, codebook_default, overlapped

\* benchmark_pqc_compression.py.  bdata, comp_alg, pqc_alg: the arguments of a
\* benchmark call.  HAS_LZ4, HAS_ZSTD, HAS_OQS: the module's flags, set when it
\* is imported.  comp_results, pqc_results: what benchmark_compression and
\* benchmark_pqc returned.  results: what benchmark_combined returned.
\* handled: the exception benchmark_combined's own handler caught, if any.
VARIABLES bdata, comp_alg, pqc_alg, HAS_LZ4, HAS_ZSTD, HAS_OQS,
          comp_results, pqc_results, results, handled

\* resources/rle.py.  text: the string passed to run_length_encode; encoded_text:
\* what it returned.
VARIABLES text, encoded_text

onevars == <<data, pc, encoded, decoded, rawdec, tree, merges, table, huff, hdecoded, heap>>
callvars == <<op, given, cdata, cpc, rst, ctree, ccodes, res, codebook_default, overlapped>>
benchvars == <<bdata, comp_alg, pqc_alg, HAS_LZ4, HAS_ZSTD, HAS_OQS,
               comp_results, pqc_results, results, handled>>
textvars == <<text, encoded_text>>
auxvars == <<benchvars, textvars>>
vars == <<onevars, callvars, auxvars>>

None == Raise("unset")

Calls == {1, 2}
NoLoop == [i |-> 0, st |-> [prev |-> 0, count |-> 0, encoded |-> <<>>]]

\* No call is made.
NoCalls ==
    /\ op = "none"
    /\ given = <<<<>>, <<>>>>
    /\ cdata = <<<<>>, <<>>>>
    /\ cpc = <<"done", "done">>
    /\ rst = <<NoLoop, NoLoop>>
    /\ ctree = <<None, None>>
    /\ ccodes = <<None, None>>
    /\ res = <<None, None>>
    /\ codebook_default = DefaultCodebook
    /\ overlapped = FALSE

\* No benchmark is run and no string is encoded.
NoAux ==
    /\ bdata = [kind |-> "bytes", val |-> <<>>]
    /\ comp_alg = "zlib"
    /\ pqc_alg = "Kyber768"
    /\ HAS_LZ4 = FALSE
    /\ HAS_ZSTD = FALSE
    /\ HAS_OQS = FALSE
    /\ comp_results = None
    /\ pqc_results = None
    /\ results = None
    /\ handled = "none"
    /\ text = <<>>
    /\ encoded_text = None

Init ==
    /\ data \in Inputs
    /\ pc = "start"
    /\ encoded = None
    /\ decoded = None
    /\ rawdec = None
    /\ tree = None
    /\ merges = <<>>
    /\ table = None
    /\ huff = None
    /\ hdecoded = None
    /\ heap = <<>>
    /\ NoCalls
    /\ NoAux

RleEncode ==
    /\ pc = "start"
    /\ encoded' = rle_encode(data)
    /\ pc' = "rle_encoded"
    /\ UNCHANGED <<data, decoded, rawdec, tree, merges, table, huff, hdecoded,
                   heap, callvars, auxvars>>

RleDecode ==
    /\ pc = "rle_encoded"
    /\ encoded.exc = "none"
    /\ decoded' = rle_decode(encoded.val)
    /\ pc' = "rle_decoded"
    /\ UNCHANGED <<data, encoded, rawdec, tree, merges, table, huff, hdecoded,
                   heap, callvars, auxvars>>

\* rle_decode of any short buffer, an output of rle_encode or not.
RleDecodeRaw ==
    /\ pc = "start"
    /\ data \in ShortBuffers
    /\ rawdec' = rle_decode(data)
    /\ pc' = "raw_decoded"
    /\ UNCHANGED <<data, encoded, decoded, tree, merges, table, huff, hdecoded,
                   heap, callvars, auxvars>>

\* The Huffman coder is applied to the short buffers.
BuildTree ==
    /\ pc = "start"
    /\ data \in ShortBuffers
    /\ tree' = Return(build_huffman_tree(data))
    /\ merges' = MergeSteps(Heapify(Leaves(data)))
    /\ pc' = "tree_built"
    /\ UNCHANGED <<data, encoded, decoded, rawdec, table, huff, hdecoded,
                   heap, callvars, auxvars>>

BuildTable ==
    /\ pc = "tree_built"
    /\ table' = Return(build_codes(tree.val))
    /\ pc' = "table_built"
    /\ UNCHANGED <<data, encoded, decoded, rawdec, tree, merges, huff, hdecoded,
                   heap, callvars, auxvars>>

HuffmanEncode ==
    /\ pc = "start"
    /\ data \in ShortBuffers
    /\ huff' = huffman_encode(data)
    /\ pc' = "huffman_encoded"
    /\ UNCHANGED <<data, encoded, decoded, rawdec, tree, merges, table, hdecoded,
                   heap, callvars, auxvars>>

HuffmanDecode ==
    /\ pc = "huffman_encoded"
    /\ huff.exc = "none"
    /\ hdecoded' = huffman_decode(huff.val[1], huff.val[2], Len(data))
    /\ pc' = "huffman_decoded"
    /\ UNCHANGED <<data, encoded, decoded, rawdec, tree, merges, table, huff,
                   heap, callvars, auxvars>>

Next ==
    \/ RleEncode
    \/ RleDecode
    \/ RleDecodeRaw
    \/ BuildTree
    \/ BuildTable
    \/ HuffmanEncode
    \/ HuffmanDecode

Spec == Init /\ [][Next]_vars

\* ------------------------------------------------------------------ two calls
CallBuffers == SeqsUpTo(0 .. MaxCallByte, MaxCallLen)
Functions == {"rle_encode", "rle_decode", "huffman_encode", "build_huffman_tree"}

InitCalls ==
    /\ data = <<>>
    /\ pc = "calls"
    /\ encoded = None
    /\ decoded = None
    /\ rawdec = None
    /\ tree = None
    /\ merges = <<>>
    /\ table = None
    /\ huff = None
    /\ hdecoded = None
    /\ heap = <<>>
    /\ op \in Functions
    /\ given \in CallBuffers \X CallBuffers
    /\ cdata = given
    /\ cpc = <<"start", "start">>
    /\ rst = <<NoLoop, NoLoop>>
    /\ ctree = <<None, None>>
    /\ ccodes = <<None, None>>
    /\ res = <<None, None>>
    /\ codebook_default = DefaultCodebook
    /\ overlapped = FALSE
    /\ NoAux

Other(t) == 3 - t

\* Call t moves from one place to the next; the step overlaps the other call
\* when that call has started and has not returned.
Goto(t, from, to) ==
    /\ cpc[t] = from
    /\ cpc' = [cpc EXCEPT ![t] = to]
    /\ overlapped' = (overlapped \/ cpc[Other(t)] \notin {"start", "done"})
    /\ UNCHANGED <<onevars, auxvars, op, given, cdata>>

\* rle_encode up to the loop: lines 34-39.
RleStart(t) ==
    /\ op = "rle_encode"
    /\ IF cdata[t] = <<>>
       THEN /\ Goto(t, "start", "done")
            /\ res' = [res EXCEPT ![t] = Return(<<>>)]
            /\ UNCHANGED rst
       ELSE /\ Goto(t, "start", "loop")
            /\ rst' = [rst EXCEPT ![t] =
                          [i |-> 2,
                           st |-> [prev |-> cdata[t][1], count |-> 1, encoded |-> <<>>]]]
            /\ UNCHANGED res
    /\ UNCHANGED <<ctree, ccodes, codebook_default>>

\* One iteration of rle_encode's loop: lines 41-48.
RleIter(t) ==
    /\ op = "rle_encode"
    /\ rst[t].i <= Len(cdata[t])
    /\ Goto(t, "loop", "loop")
    /\ rst' = [rst EXCEPT ![t] =
                  [i |-> rst[t].i + 1, st |-> RleStep(rst[t].st, cdata[t][rst[t].i])]]
    /\ UNCHANGED <<ctree, ccodes, res, codebook_default>>

\* rle_encode after the loop: lines 50-53.
RleReturn(t) ==
    /\ op = "rle_encode"
    /\ rst[t].i > Len(cdata[t])
    /\ Goto(t, "loop", "done")
    /\ res' = [res EXCEPT ![t] =
                  ToBytes(Emit(rst[t].st.encoded, rst[t].st.prev, rst[t].st.count))]
    /\ UNCHANGED <<rst, ctree, ccodes, codebook_default>>

\* huffman_encode up to the tree: lines 108-111.
HuffStart(t) ==
    /\ op = "huffman_encode"
    /\ IF NotData(cdata[t])
       THEN /\ Goto(t, "start", "done")
            /\ res' = [res EXCEPT ![t] = Return(<<<<>>, EmptyDict>>)]
            /\ UNCHANGED ctree
       ELSE /\ Goto(t, "start", "codes")
            /\ ctree' = [ctree EXCEPT ![t] = Return(build_huffman_tree(cdata[t]))]
            /\ UNCHANGED res
    /\ UNCHANGED <<rst, ccodes, codebook_default>>

\* codes = build_codes(tree): line 112.
HuffCodes(t) ==
    /\ op = "huffman_encode"
    /\ Goto(t, "codes", "pack")
    /\ LET call == build_codes_default(ctree[t].val, codebook_default)
       IN  /\ ccodes' = [ccodes EXCEPT ![t] = Return(call.codes)]
           /\ codebook_default' = call.default
    /\ UNCHANGED <<rst, ctree, res>>

\* The join, the padding and the packing: lines 114-123.
HuffPack(t) ==
    /\ op = "huffman_encode"
    /\ Goto(t, "pack", "done")
    /\ res' = [res EXCEPT ![t] = PackCodes(ccodes[t].val, cdata[t])]
    /\ UNCHANGED <<rst, ctree, ccodes, codebook_default>>

\* build_huffman_tree called on its own.
TreeCall(t) ==
    /\ op = "build_huffman_tree"
    /\ Goto(t, "start", "done")
    /\ res' = [res EXCEPT ![t] = Return(build_huffman_tree(cdata[t]))]
    /\ UNCHANGED <<rst, ctree, ccodes, codebook_default>>

\* rle_decode: lines 57-61.
RleDecodeCall(t) ==
    /\ op = "rle_decode"
    /\ Goto(t, "start", "done")
    /\ res' = [res EXCEPT ![t] = rle_decode(cdata[t])]
    /\ UNCHANGED <<rst, ctree, ccodes, codebook_default>>

NextCalls ==
    \E t \in Calls :
        \/ RleStart(t)
        \/ RleIter(t)
        \/ RleReturn(t)
        \/ RleDecodeCall(t)
        \/ HuffStart(t)
        \/ HuffCodes(t)
        \/ HuffPack(t)
        \/ TreeCall(t)

SpecCalls == InitCalls /\ [][NextCalls]_vars

\* ------------------------------------------------------------------ merge loop
\* build_huffman_tree on a short buffer, one iteration of its loop at a time.
InitTree ==
    /\ data \in ShortBuffers
    /\ pc = "tree_call"
    /\ encoded = None
    /\ decoded = None
    /\ rawdec = None
    /\ tree = None
    /\ merges = <<>>
    /\ table = None
    /\ huff = None
    /\ hdecoded = None
    /\ heap = <<>>
    /\ NoCalls
    /\ NoAux

\* The leaves and heapify: lines 79-81.
TreeStart ==
    /\ pc = "tree_call"
    /\ heap' = Heapify(Leaves(data))
    /\ pc' = "merging"
    /\ UNCHANGED <<data, encoded, decoded, rawdec, tree, merges, table, huff, hdecoded,
                   callvars, auxvars>>

\* One iteration of the loop: lines 83-89.  merges records the heap it found.
TreeIter ==
    /\ pc = "merging"
    /\ Len(heap) > 1
    /\ heap' = MergeIteration(heap)
    /\ merges' = Append(merges, heap)
    /\ UNCHANGED <<data, pc, encoded, decoded, rawdec, tree, table, huff, hdecoded,
                   callvars, auxvars>>

\* The loop's exit and the return: lines 83, 91.
TreeReturn ==
    /\ pc = "merging"
    /\ ~(Len(heap) > 1)
    /\ tree' = Return(IF heap # <<>> THEN <<heap[1]>> ELSE NoneNode)
    /\ pc' = "returned"
    /\ UNCHANGED <<data, encoded, decoded, rawdec, merges, table, huff, hdecoded, heap,
                   callvars, auxvars>>

NextTree ==
    \/ TreeStart
    \/ TreeIter
    \/ TreeReturn

\* A step of the call can be taken until it has returned: the state predicate
\* that ENABLED <<NextTree>>_vars equals.
Running == pc # "returned"

\* The call is sequential code that keeps running, so a step that can be
\* taken is taken: weak fairness of NextTree, with its ENABLED written as
\* Running, and of the return.
TreeFairness ==
    /\ []<>(~Running) \/ []<><<NextTree>>_vars
    /\ WF_vars(TreeReturn)

SpecTree == InitTree /\ [][NextTree]_vars /\ TreeFairness

\* ------------------------------------------------------------------ benchmarks
\* A call of benchmark_compression or of benchmark_combined on some data, in
\* a process where each of the three optional libraries is there or not.
InitBench ==
    /\ data = <<>>
    /\ pc = "bench"
    /\ encoded = None
    /\ decoded = None
    /\ rawdec = None
    /\ tree = None
    /\ merges = <<>>
    /\ table = None
    /\ huff = None
    /\ hdecoded = None
    /\ heap = <<>>
    /\ NoCalls
    /\ bdata \in BenchData
    /\ comp_alg \in CompAlgorithms
    /\ pqc_alg \in PqcAlgorithms
    /\ HAS_LZ4 \in BOOLEAN
    /\ HAS_ZSTD \in BOOLEAN
    /\ HAS_OQS \in BOOLEAN
    /\ comp_results = None
    /\ pqc_results = None
    /\ results = None
    /\ handled = "none"
    /\ text = <<>>
    /\ encoded_text = None

\* benchmark_compression(bdata, comp_alg)
BenchmarkCompression ==
    /\ pc = "bench"
    /\ \E size \in CompressedSizes, ctime \in Ticks, dtime \in Ticks :
           comp_results' = Return(benchmark_compression(bdata, comp_alg, HAS_LZ4,
                                                        HAS_ZSTD, size, ctime, dtime))
    /\ pc' = "compression_done"
    /\ UNCHANGED <<data, encoded, decoded, rawdec, tree, merges, table, huff, hdecoded,
                   heap, callvars, bdata, comp_alg, pqc_alg, HAS_LZ4, HAS_ZSTD,
                   HAS_OQS, pqc_results, results, handled, textvars>>

\* benchmark_combined(bdata, pqc_alg, comp_alg)
BenchmarkCombined ==
    /\ pc = "bench"
    /\ \E size \in CompressedSizes, ctime \in Ticks, dtime \in Ticks,
          supported \in BOOLEAN, ktime \in [1 .. 3 -> Ticks] :
           LET comp == benchmark_compression(bdata, comp_alg, HAS_LZ4, HAS_ZSTD,
                                             size, ctime, dtime)
               pqc == benchmark_pqc(pqc_alg, HAS_OQS, supported, ktime)
           IN  /\ comp_results' = Return(comp)
               /\ pqc_results' = Return(pqc)
               /\ results' = benchmark_combined(bdata, pqc_alg, comp_alg, comp, pqc)
               /\ handled' = CombinedTry(bdata, pqc_alg, comp_alg, comp, pqc).exc
    /\ pc' = "combined_done"
    /\ UNCHANGED <<data, encoded, decoded, rawdec, tree, merges, table, huff, hdecoded,
                   heap, callvars, bdata, comp_alg, pqc_alg, HAS_LZ4, HAS_ZSTD,
                   HAS_OQS, textvars>>

NextBench ==
    \/ BenchmarkCompression
    \/ BenchmarkCombined

SpecBench == InitBench /\ [][NextBench]_vars

\* ------------------------------------------------------------------ rle.py call
InitText ==
    /\ data = <<>>
    /\ pc = "text"
    /\ encoded = None
    /\ decoded = None
    /\ rawdec = None
    /\ tree = None
    /\ merges = <<>>
    /\ table = None
    /\ huff = None
    /\ hdecoded = None
    /\ heap = <<>>
    /\ NoCalls
    /\ bdata = [kind |-> "bytes", val |-> <<>>]
    /\ comp_alg = "zlib"
    /\ pqc_alg = "Kyber768"
    /\ HAS_LZ4 = FALSE
    /\ HAS_ZSTD = FALSE
    /\ HAS_OQS = FALSE
    /\ comp_results = None
    /\ pqc_results = None
    /\ results = None
    /\ handled = "none"
    /\ text \in Texts
    /\ encoded_text = None

\* encoded = run_length_encode(input_string)
RunLengthEncode ==
    /\ pc = "text"
    /\ encoded_text' = run_length_encode(text)
    /\ pc' = "text_encoded"
    /\ UNCHANGED <<data, encoded, decoded, rawdec, tree, merges, table, huff, hdecoded,
                   heap, callvars, benchvars, text>>

NextText == RunLengthEncode

SpecText == InitText /\ [][NextText]_vars

\* ------------------------------------------------------------------ claims
\* The distinct byte values of a buffer.
Symbols(buf) == {buf[i] : i \in 1 .. Len(buf)}

\* C1: for every byte buffer B, the empty one and those with runs longer than
\* 255 included, rle_encode(B) returns and rle_decode of it is B.
C1_RleRoundTrip ==
    /\ pc \in {"rle_encoded", "rle_decoded"} => encoded.exc = "none"
    /\ pc = "rle_decoded" => decoded = Return(data)

\* A buffer with a run longer than 255 has been encoded and decoded.
C1_Witness ==
    /\ pc = "rle_decoded"
    /\ Len(data) > MaxCount
    /\ Symbols(data) = {0}

\* C2: for every non-empty buffer with exactly one distinct byte value,
\* huffman_encode returns (packed bytes, code table) and raises nothing.
C2_SingleSymbolReturns ==
    (pc = "huffman_encoded" /\ data # <<>> /\ Cardinality(Symbols(data)) = 1)
        => huff.exc = "none"

\* C3: for every non-empty buffer with exactly one distinct byte value, the
\* code build_codes(build_huffman_tree(B)) gives that byte has length >= 1.
C3_SingleSymbolCodeNonEmpty ==
    (pc = "table_built" /\ data # <<>> /\ Cardinality(Symbols(data)) = 1)
        => /\ data[1] \in DOMAIN table.val
           /\ Len(table.val[data[1]]) >= 1

\* C4: for every non-empty buffer B, huffman_encode(B) returns, and decoding
\* its packed bytes with its code table and the count len(B) yields B.
C4_HuffmanRoundTrip ==
    /\ (pc = "huffman_encoded" /\ data # <<>>) => huff.exc = "none"
    /\ pc = "huffman_decoded" => hdecoded = Return(data)

\* p is a prefix of q.
IsPrefix(p, q) == Len(p) <= Len(q) /\ SubSeq(q, 1, Len(p)) = p

\* C5: for every non-empty buffer B the code table is prefix-free: the code of
\* a key is a prefix of the code of no other key.
C5_PrefixFree ==
    (pc = "table_built" /\ data # <<>>)
        => \A a \in DOMAIN table.val : \A b \in DOMAIN table.val :
               a # b => ~IsPrefix(table.val[a], table.val[b])

\* A table with codes of different lengths has been built.
C5_Witness ==
    /\ pc = "table_built"
    /\ Cardinality(Symbols(data)) >= 3
    /\ \E a \in DOMAIN table.val : \E b \in DOMAIN table.val :
           Len(table.val[a]) < Len(table.val[b])

\* C6: for every non-empty buffer B the keys of the code table are exactly
\* the distinct byte values of B.
C6_KeysAreSymbols ==
    (pc = "table_built" /\ data # <<>>) => DOMAIN table.val = Symbols(data)

\* A table has been built from a tree with internal nodes whose leaves
\* include byte value 0.
C6_Witness ==
    /\ pc = "table_built"
    /\ 0 \in Symbols(data)
    /\ Cardinality(Symbols(data)) >= 3
    /\ tree.val[1].char = NoneChar

\* The tokens of an encoded buffer: token t is the pair at 2t-1, 2t.
NumTokens(enc) == Len(enc) \div 2
TokVal(enc, t) == enc[2 * t - 1]
TokCount(enc, t) == enc[2 * t]

\* The position in the input of the first byte token t stands for.
RECURSIVE TokStart(_, _)
TokStart(enc, t) ==
    IF t = 1 THEN 1 ELSE TokStart(enc, t - 1) + TokCount(enc, t - 1)

\* The maximal runs of a buffer: where each starts and ends.
RunStarts(buf) == {i \in 1 .. Len(buf) : i = 1 \/ buf[i - 1] # buf[i]}
RunEnd(buf, s) ==
    LET later == {j \in RunStarts(buf) : j > s}
    IN  IF later = {}
        THEN Len(buf)
        ELSE (CHOOSE j \in later : \A j2 \in later : j <= j2) - 1

CeilDiv(a, b) == (a + b - 1) \div b

\* C7: for every maximal run of k > 255 identical bytes, rle_encode emits
\* exactly ceil(k/255) consecutive tokens for it, all with the run's value,
\* all but the last with count 255, the last with the remaining count.
C7_LongRunSplit ==
    pc = "rle_encoded" =>
        /\ encoded.exc = "none"
        /\ \A s \in RunStarts(data) :
               LET e == RunEnd(data, s)
                   k == e - s + 1
                   n == CeilDiv(k, MaxCount)
                   enc == encoded.val
                   T == {t \in 1 .. NumTokens(enc) : TokStart(enc, t) \in s .. e}
               IN  k > MaxCount =>
                       /\ Cardinality(T) = n
                       /\ \E t0 \in T :
                              /\ T = t0 .. (t0 + n - 1)
                              /\ \A t \in T :
                                     /\ TokVal(enc, t) = data[s]
                                     /\ TokCount(enc, t) =
                                            IF t < t0 + n - 1
                                            THEN MaxCount
                                            ELSE k - MaxCount * (n - 1)

\* A buffer with a run of more than twice 255 bytes next to another run has
\* been encoded.
C7_Witness ==
    /\ pc = "rle_encoded"
    /\ Symbols(data) = {0, 1}
    /\ \E s \in RunStarts(data) : RunEnd(data, s) - s + 1 > 2 * MaxCount

\* C8: for every buffer B, len(rle_encode(B)) is even and the output
\* alternates value byte, count byte: the first byte of each pair is the
\* value of the input byte the pair starts at.
C8_EvenAlternating ==
    pc = "rle_encoded" =>
        /\ encoded.exc = "none"
        /\ Len(encoded.val) % 2 = 0
        /\ \A t \in 1 .. NumTokens(encoded.val) :
               /\ TokStart(encoded.val, t) \in 1 .. Len(data)
               /\ TokVal(encoded.val, t) = data[TokStart(encoded.val, t)]

\* A buffer of several runs has been encoded.
C8_Witness ==
    /\ pc = "rle_encoded"
    /\ encoded.exc = "none"
    /\ NumTokens(encoded.val) >= 3
    /\ \E t \in 1 .. NumTokens(encoded.val) : TokCount(encoded.val, t) = 1

\* C9: every count byte of an output of rle_encode is in 1..255.
C9_CountRange ==
    pc = "rle_encoded" =>
        /\ encoded.exc = "none"
        /\ \A i \in 1 .. Len(encoded.val) :
               i % 2 = 0 => encoded.val[i] \in 1 .. MaxCount

\* A run of exactly 256 bytes has been encoded: the count would not fit.
C9_Witness ==
    /\ pc = "rle_encoded"
    /\ data = Repeat(0, MaxCount + 1)
    /\ encoded.exc = "none"

\* f[1] + ... + f[n]
RECURSIVE Sum(_, _)
Sum(f, n) == IF n = 0 THEN 0 ELSE f[n] + Sum(f, n - 1)

\* The number of occurrences of byte c in a buffer.
Occurrences(buf, c) == Cardinality({i \in 1 .. Len(buf) : buf[i] = c})

\* The code lengths of the prefix-free binary codes over d symbols (numbered
\* 1..d): by Kraft's inequality, lengths l are those of a prefix-free binary
\* code exactly when the sum of 2^-l[i] is at most 1.  Lengths above d are left
\* out: the least cost is that of a code whose tree is full, which is no
\* deeper than d - 1.
MaxSymbols == MaxByte + 1
KraftLengths(d) ==
    {l \in [1 .. d -> 1 .. d] : Sum([i \in 1 .. d |-> Pow(2, d - l[i])], d) <= Pow(2, d)}

\* The total bit length of a buffer whose d symbols occur freq[i] times under
\* a code with lengths l[i].
BitLength(freq, l, d) == Sum([i \in 1 .. d |-> freq[i] * l[i]], d)

\* The frequencies d symbols can have in a short buffer.
Frequencies(d) == {f \in [1 .. d -> 1 .. MaxLen] : Sum(f, d) <= MaxLen}

\* For each such frequencies, the bit lengths under the prefix-free codes.
PrefixFreeBitLengths ==
    UNION {{<<f, {BitLength(f, l, d) : l \in KraftLengths(d)}>> : f \in Frequencies(d)} :
              d \in 2 .. MaxSymbols}

\* The distinct byte values of a buffer, numbered.
RECURSIVE Numbered(_)
Numbered(S) ==
    IF S = {}
    THEN <<>>
    ELSE LET x == CHOOSE x \in S : \A y \in S : x <= y
         IN  <<x>> \o Numbered(S \ {x})

\* C10: for every buffer B with at least two distinct byte values, the total
\* encoded bit length (sum over symbols of frequency times code length) of the
\* code table is minimal among the prefix-free binary codes over B's symbols.
C10_Optimal ==
    (pc = "table_built" /\ Cardinality(Symbols(data)) >= 2) =>
        LET syms == Numbered(Symbols(data))
            d == Len(syms)
            freq == [i \in 1 .. d |-> Occurrences(data, syms[i])]
        IN  /\ Symbols(data) \subseteq DOMAIN table.val
            /\ \E p \in PrefixFreeBitLengths : p[1] = freq
            /\ \A p \in PrefixFreeBitLengths :
                   p[1] = freq =>
                       \A other \in p[2] :
                           BitLength(freq, [i \in 1 .. d |-> Len(table.val[syms[i]])], d)
                               <= other

\* A table has been built for four symbols of which one is as frequent as
\* two others together, where the order of the merges decides the cost.
C10_Witness ==
    /\ pc = "table_built"
    /\ Cardinality(Symbols(data)) = 4
    /\ \E c \in Symbols(data) : Occurrences(data, c) = 2

\* C11: for every non-empty buffer B and byte values a, b of B, if a occurs
\* strictly more often than b then the code of a is no longer than that of b.
C11_FrequentIsShorter ==
    (pc = "table_built" /\ data # <<>>) =>
        \A a \in Symbols(data) : \A b \in Symbols(data) :
            Occurrences(data, a) > Occurrences(data, b) =>
                /\ a \in DOMAIN table.val
                /\ b \in DOMAIN table.val
                /\ Len(table.val[a]) <= Len(table.val[b])

\* A table has been built in which a more frequent byte has a strictly
\* shorter code than a less frequent one.
C11_Witness ==
    /\ pc = "table_built"
    /\ \E a \in Symbols(data) : \E b \in Symbols(data) :
           /\ Occurrences(data, a) > Occurrences(data, b)
           /\ Len(table.val[a]) < Len(table.val[b])

\* C12: for a buffer of n >= 1 copies of one byte value, huffman_encode gives
\* that byte a 1-bit code and returns exactly ceil(n/8) packed bytes.
C12_SingleSymbolOneBit ==
    (pc = "huffman_encoded" /\ data # <<>> /\ Cardinality(Symbols(data)) = 1) =>
        /\ huff.exc = "none"
        /\ data[1] \in DOMAIN huff.val[2]
        /\ Len(huff.val[2][data[1]]) = 1
        /\ Len(huff.val[1]) = CeilDiv(Len(data), 8)

\* C13: for every non-empty buffer B, with T the sum of the code lengths of
\* B's bytes, huffman_encode returns exactly ceil(T/8) bytes: the T code bits
\* followed by 0..7 padding bits, all of them 0.
C13_Padding ==
    (pc = "huffman_encoded" /\ data # <<>>) =>
        /\ huff.exc = "none"
        /\ LET bits == Join(huff.val[2], data, 1)
               T == Len(bits)
               packed == UnpackBits(huff.val[1])
           IN  /\ Len(huff.val[1]) = CeilDiv(T, 8)
               /\ Len(packed) - T \in 0 .. 7
               /\ \A i \in 1 .. Len(packed) : i > T => packed[i] = "0"

\* C14: for every non-empty buffer B, bit i (from 0) of the padded
\* concatenation of the codes in input order is bit 7 - i mod 8 of output byte
\* i div 8: packing is MSB first and keeps leading zero bits.
C14_MsbFirst ==
    (pc = "huffman_encoded" /\ data # <<>>) =>
        /\ huff.exc = "none"
        /\ LET padded == Pad(Join(huff.val[2], data, 1))
           IN  /\ Len(padded) = 8 * Len(huff.val[1])
               /\ \A i \in 0 .. Len(padded) - 1 :
                      (padded[i + 1] = "1") <=>
                          ((huff.val[1][i \div 8 + 1] \div Pow(2, 7 - (i % 8))) % 2 = 1)

\* C15: rle_encode(b'') and rle_decode(b'') both return the empty buffer and
\* raise nothing.
C15_RleEmpty ==
    data = <<>> =>
        /\ pc = "rle_encoded" => encoded = Return(<<>>)
        /\ pc = "raw_decoded" => rawdec = Return(<<>>)
        /\ pc = "rle_decoded" => decoded = Return(<<>>)

\* rle_decode has been called on the empty buffer.
C15_Witness == data = <<>> /\ pc = "raw_decoded"

\* C17: for every encoded buffer E of odd length, rle_decode(E) raises nothing
\* and equals rle_decode of E without its last byte.
C17_OddLengthDropped ==
    (pc = "raw_decoded" /\ Len(data) % 2 = 1) =>
        /\ rawdec.exc = "none"
        /\ rawdec = rle_decode(SubSeq(data, 1, Len(data) - 1))

\* An odd-length buffer with a non-empty decoding has been decoded.
C17_Witness ==
    /\ pc = "raw_decoded"
    /\ Len(data) = 3
    /\ data[2] >= 1

\* The two nodes removed in iteration j of the merge loop and the queue each
\* is removed from.
FirstPop(j) == HeapPop(merges[j])
SecondPop(j) == HeapPop(FirstPop(j).heap)

\* When a node entered the queue: the leaves in order of first occurrence,
\* then the merged nodes in order of creation.
Entered(x) ==
    LET leaves == Leaves(data)
    IN  IF x.char # NoneChar
        THEN CHOOSE k \in 1 .. Len(leaves) : leaves[k] = x
        ELSE Len(leaves) +
                 (CHOOSE i \in 1 .. Len(merges) :
                      Merge(FirstPop(i).item, SecondPop(i).item) = x)

\* x has the smallest frequency of the queue.
Smallest(x, queue) == \A k \in 1 .. Len(queue) : x.freq <= queue[k].freq

\* x entered before every other node of the queue with its frequency.
EarliestOfTies(x, queue) ==
    \A k \in 1 .. Len(queue) :
        (queue[k] # x /\ queue[k].freq = x.freq) => Entered(x) < Entered(queue[k])

\* C20 as stated: each removed node has the smallest frequency of the queue
\* and, among the nodes of that frequency, is the one that entered first.
C20_StableTies ==
    pc = "tree_built" =>
        \A j \in 1 .. Len(merges) :
            /\ Smallest(FirstPop(j).item, merges[j])
            /\ EarliestOfTies(FirstPop(j).item, merges[j])
            /\ Smallest(SecondPop(j).item, FirstPop(j).heap)
            /\ EarliestOfTies(SecondPop(j).item, FirstPop(j).heap)

\* C20 amended: each of the two nodes removed has the smallest frequency of
\* the queue it is removed from (ties are broken by heapq's array order).
C20_SmallestRemoved ==
    pc = "tree_built" =>
        \A j \in 1 .. Len(merges) :
            /\ Smallest(FirstPop(j).item, merges[j])
            /\ Smallest(SecondPop(j).item, FirstPop(j).heap)

\* A tree has been built in three merges, one of which removed a node that
\* was not the first to enter among those of its frequency.
C20_Witness ==
    /\ pc = "tree_built"
    /\ Len(merges) >= 3
    /\ \E j \in 1 .. Len(merges) : ~EarliestOfTies(FirstPop(j).item, merges[j])

\* C16: huffman_encode on an empty buffer returns an empty byte sequence and
\* an empty table, raising nothing and building neither tree nor codes;
\* build_huffman_tree on an empty buffer returns None.
C16_HuffmanEmpty ==
    \A t \in Calls :
        (cpc[t] = "done" /\ cdata[t] = <<>>) =>
            /\ op = "huffman_encode" =>
                   /\ res[t] = Return(<<<<>>, EmptyDict>>)
                   /\ ctree[t] = None
                   /\ ccodes[t] = None
            /\ op = "build_huffman_tree" => res[t] = Return(NoneNode)

\* huffman_encode has returned for an empty buffer while the other call, on a
\* buffer that is not empty, built its tree.
C16_Witness ==
    /\ op = "huffman_encode"
    /\ cpc = <<"done", "done">>
    /\ cdata[1] = <<>>
    /\ ctree[2] # None

\* What a call of function f on buffer b returns when nothing else runs.
Alone(f, b) ==
    IF f = "rle_encode" THEN rle_encode(b)
    ELSE IF f = "rle_decode" THEN rle_decode(b)
    ELSE IF f = "huffman_encode" THEN huffman_encode(b)
    ELSE Return(build_huffman_tree(b))

\* C18: a call leaves its input buffer unchanged and no state behind: the
\* default codebook stays as it was made, the code table a huffman_encode call returns
\* has entries for that call's bytes only, and two calls of the same function
\* on the same buffer return equal results.
C18_NoSideEffects ==
    /\ cdata = given
    /\ codebook_default = DefaultCodebook
    /\ \A t \in Calls :
           (cpc[t] = "done" /\ op = "huffman_encode" /\ res[t].exc = "none") =>
               DOMAIN res[t].val[2] \subseteq Symbols(cdata[t])
    /\ (cpc = <<"done", "done">> /\ cdata[1] = cdata[2]) => res[1] = res[2]

\* Two huffman_encode calls, one after the other, have returned tables for
\* buffers that share only some of their bytes.
C18_Witness ==
    /\ op = "huffman_encode"
    /\ cpc = <<"done", "done">>
    /\ ~overlapped
    /\ res[1].exc = "none"
    /\ res[2].exc = "none"
    /\ Symbols(cdata[1]) \ Symbols(cdata[2]) # {}
    /\ Symbols(cdata[2]) \ Symbols(cdata[1]) # {}

\* C19: under every interleaving of the steps of two calls on separate
\* buffers, each call returns what it returns when run alone.
C19_NoInterference ==
    \A t \in Calls : cpc[t] = "done" => res[t] = Alone(op, cdata[t])

\* Two huffman_encode calls on different buffers have both returned a table
\* after steps of one were taken in the middle of the other.
C19_Witness ==
    /\ op = "huffman_encode"
    /\ cpc = <<"done", "done">>
    /\ overlapped
    /\ res[1].exc = "none"
    /\ res[2].exc = "none"
    /\ Symbols(cdata[1]) # Symbols(cdata[2])

\* The nodes of the tree under a reference, and those with a child.
RECURSIVE Nodes(_)
Nodes(ref) ==
    IF ref = NoneNode
    THEN {}
    ELSE {ref[1]} \cup Nodes(ref[1].left) \cup Nodes(ref[1].right)

Internal(n) == n.left # NoneNode \/ n.right # NoneNode

\* The queue at the end of iteration j of the merge loop.
QueueAfter(j) == IF j < Len(merges) THEN merges[j + 1] ELSE tree.val

\* C21: in every merge step the first node removed is the left child and the
\* second the right child of the new internal node, and both have a frequency
\* no greater than that of any node remaining in the queue; at every internal
\* node left.freq <= right.freq and freq = left.freq + right.freq.
C21_MergeOrder ==
    pc = "tree_built" =>
        /\ \A j \in 1 .. Len(merges) :
               LET left == FirstPop(j).item
                   right == SecondPop(j).item
                   rest == SecondPop(j).heap
                   after == QueueAfter(j)
               IN  /\ \A k \in 1 .. Len(rest) :
                          /\ left.freq <= rest[k].freq
                          /\ right.freq <= rest[k].freq
                   /\ \E k \in 1 .. Len(after) :
                          /\ after[k].char = NoneChar
                          /\ after[k].left = <<left>>
                          /\ after[k].right = <<right>>
        /\ \A n \in Nodes(tree.val) :
               Internal(n) =>
                   /\ n.left # NoneNode
                   /\ n.right # NoneNode
                   /\ n.left[1].freq <= n.right[1].freq
                   /\ n.freq = n.left[1].freq + n.right[1].freq

\* A tree has been built in several merges, one of them of two nodes of
\* different frequencies taken from a queue in which a node remained.
C21_Witness ==
    /\ pc = "tree_built"
    /\ Len(merges) >= 2
    /\ \E j \in 1 .. Len(merges) :
           /\ FirstPop(j).item.freq < SecondPop(j).item.freq
           /\ SecondPop(j).heap # <<>>

\* The leaves under a reference, left to right, and the sum of their
\* frequencies.
RECURSIVE LeafSeq(_)
LeafSeq(ref) ==
    IF ref = NoneNode
    THEN <<>>
    ELSE IF Internal(ref[1])
         THEN LeafSeq(ref[1].left) \o LeafSeq(ref[1].right)
         ELSE <<ref[1]>>

LeafFreq(ref) ==
    LET ls == LeafSeq(ref)
    IN  Sum([k \in 1 .. Len(ls) |-> ls[k].freq], Len(ls))

\* C22: for every non-empty buffer B the root has frequency len(B), every
\* internal node has the sum of the frequencies of the leaves below it and no
\* byte value, and each distinct byte of B is in exactly one leaf, whose
\* frequency is the number of its occurrences in B.
C22_TreeFrequencies ==
    (pc = "tree_built" /\ data # <<>>) =>
        /\ tree.val # NoneNode
        /\ tree.val[1].freq = Len(data)
        /\ \A n \in Nodes(tree.val) :
               Internal(n) =>
                   /\ n.char = NoneChar
                   /\ n.freq = LeafFreq(<<n>>)
        /\ LET ls == LeafSeq(tree.val)
           IN  /\ \A k \in 1 .. Len(ls) : ls[k].char \in Symbols(data)
               /\ \A c \in Symbols(data) :
                      /\ Cardinality({k \in 1 .. Len(ls) : ls[k].char = c}) = 1
                      /\ \A k \in 1 .. Len(ls) :
                             ls[k].char = c => ls[k].freq = Occurrences(data, c)

\* A tree has been built for a buffer of three or more byte values, one of
\* which occurs more than once, not next to itself.
C22_Witness ==
    /\ pc = "tree_built"
    /\ Cardinality(Symbols(data)) >= 3
    /\ \E i \in 1 .. Len(data) : \E j \in 1 .. Len(data) :
           j > i + 1 /\ data[i] = data[j]

\* C23: the merge loop terminates for every buffer: it starts with d queued
\* leaves (d the number of distinct bytes), each iteration makes the queue one
\* shorter, and for d >= 1 the loop ends after exactly d - 1 merges with a
\* single node, the root returned, left.
C23_MergeLoopTerminates ==
    /\ [](pc = "merging" =>
              Len(heap) = Cardinality(Symbols(data)) - Len(merges))
    /\ [][(pc = "merging" /\ pc' = "merging") =>
              /\ Len(heap') = Len(heap) - 1
              /\ Len(merges') = Len(merges) + 1]_vars
    /\ []((pc = "returned" /\ data # <<>>) =>
              /\ Len(merges) = Cardinality(Symbols(data)) - 1
              /\ Len(heap) = 1
              /\ tree = Return(<<heap[1]>>))
    /\ <>(pc = "returned")

\* The loop has ended after three merges.
C23_Witness ==
    /\ pc = "returned"
    /\ Len(merges) = 3
    /\ Len(heap) = 1

\* C24: the output of rle_encode is canonical: two adjacent tokens carry the
\* same value only if the earlier of the two has count 255.
C24_Canonical ==
    pc = "rle_encoded" =>
        /\ encoded.exc = "none"
        /\ \A t \in 1 .. NumTokens(encoded.val) - 1 :
               TokVal(encoded.val, t) = TokVal(encoded.val, t + 1) =>
                   TokCount(encoded.val, t) = MaxCount

\* A buffer has been encoded to tokens of which two adjacent ones carry the
\* same value and two adjacent ones different values.
C24_Witness ==
    /\ pc = "rle_encoded"
    /\ encoded.exc = "none"
    /\ \E t \in 1 .. NumTokens(encoded.val) - 1 :
           TokVal(encoded.val, t) = TokVal(encoded.val, t + 1)
    /\ \E t \in 1 .. NumTokens(encoded.val) - 1 :
           TokVal(encoded.val, t) # TokVal(encoded.val, t + 1)

\* C25: for every byte buffer E, an output of rle_encode or not, rle_decode(E)
\* raises nothing, has as length the sum of the count bytes of E's pairs and
\* consists, in order, of each value byte repeated count times; a pair whose
\* count is 0 contributes nothing.
C25_DecodeAnyBuffer ==
    pc = "raw_decoded" =>
        /\ rawdec.exc = "none"
        /\ Len(rawdec.val) =
               Sum([t \in 1 .. NumTokens(data) |-> TokCount(data, t)], NumTokens(data))
        /\ \A t \in 1 .. NumTokens(data) :
               \A k \in 1 .. TokCount(data, t) :
                   rawdec.val[TokStart(data, t) + k - 1] = TokVal(data, t)

\* A buffer with a pair of count 0 after a pair of count 2 or more has been
\* decoded.
C25_Witness ==
    /\ pc = "raw_decoded"
    /\ NumTokens(data) >= 2
    /\ TokCount(data, 1) >= 2
    /\ \E t \in 2 .. NumTokens(data) : TokCount(data, t) = 0
    /\ rawdec.exc = "none"
    /\ Len(rawdec.val) >= 2

\* C26: for every buffer with d >= 2 distinct byte values the tree is a full
\* binary tree (every internal node has two children, every leaf none), the
\* code lengths l(s) of the table satisfy the Kraft equality, the sum over the
\* symbols s of 2^(L - l(s)) being 2^L for L the largest length, and every
\* code has a length between 1 and d - 1.
C26_FullTreeKraft ==
    (pc = "table_built" /\ Cardinality(Symbols(data)) >= 2) =>
        LET syms == Numbered(DOMAIN table.val)
            d == Cardinality(Symbols(data))
            l == [i \in 1 .. Len(syms) |-> Len(table.val[syms[i]])]
            L == CHOOSE m \in {l[i] : i \in 1 .. Len(syms)} :
                     \A i \in 1 .. Len(syms) : l[i] <= m
        IN  /\ \A n \in Nodes(tree.val) :
                   IF n.char = NoneChar
                   THEN n.left # NoneNode /\ n.right # NoneNode
                   ELSE n.left = NoneNode /\ n.right = NoneNode
            /\ DOMAIN table.val = Symbols(data)
            /\ Sum([i \in 1 .. Len(syms) |-> Pow(2, L - l[i])], Len(syms)) = Pow(2, L)
            /\ \A i \in 1 .. Len(syms) : l[i] \in 1 .. d - 1

\* A table has been built for three byte values in which a code has the
\* largest length there can be, 2, and another the length 1.
C26_Witness ==
    /\ pc = "table_built"
    /\ Cardinality(Symbols(data)) = 3
    /\ \E a \in DOMAIN table.val : Len(table.val[a]) = 2
    /\ \E a \in DOMAIN table.val : Len(table.val[a]) = 1

\* C27: when benchmark_combined completes without an exception in its own
\* try block, total_transmission is compressed_size + pqc_overhead, the
\* ciphertext size, and success is True exactly when the compression
\* benchmark and the PQC benchmark both reported success.
C27_CombinedTotals ==
    (pc = "combined_done" /\ handled = "none") =>
        /\ results.exc = "none"
        /\ results.val.total_transmission =
               results.val.compressed_size + results.val.pqc_overhead
        /\ results.val.pqc_overhead = pqc_results.val.ct_size
        /\ results.val.compressed_size = comp_results.val.compressed_size
        /\ results.val.success =
               (comp_results.val.success /\ pqc_results.val.success)

\* A combined benchmark has completed for data a library compressed, with a
\* PQC benchmark that reported a failure.
C27_Witness ==
    /\ pc = "combined_done"
    /\ handled = "none"
    /\ comp_results.val.success
    /\ comp_results.val.compressed_size # comp_results.val.original_size
    /\ ~pqc_results.val.success
    /\ ~results.val.success

C29_PassThrough ==
    (/\ pc \in {"compression_done", "combined_done"}
     /\ comp_alg # "zlib"
     /\ ~(comp_alg = "lz4" /\ HAS_LZ4)
     /\ ~(comp_alg = "zstd" /\ HAS_ZSTD)) =>
        /\ comp_results.exc = "none"
        /\ comp_results.val.original_size = len(bdata)
        /\ comp_results.val.compressed_size = comp_results.val.original_size
        /\ "success" \in DOMAIN comp_results.val
        /\ comp_results.val.success = TRUE
        /\ "error" \notin DOMAIN comp_results.val

\* benchmark_compression has been called for 'lz4', which is not installed,
\* on a buffer that is not empty, in a process that has zstd.
C29_Witness ==
    /\ pc = "compression_done"
    /\ comp_alg = "lz4"
    /\ ~HAS_LZ4
    /\ HAS_ZSTD
    /\ len(bdata) >= 1
    /\ comp_results.exc = "none"

\* The tokens of an output of run_length_encode: each a run of digits and the
\* character after it.  digits is what has been read of the token at i.
RECURSIVE TextTokens(_, _, _)
TextTokens(out, i, digits) ==
    IF i > Len(out)
    THEN IF digits = <<>> THEN <<>> ELSE <<[digits |-> digits, char |-> ""]>>
    ELSE IF out[i] \in {Digit(d) : d \in 0 .. 9}
         THEN TextTokens(out, i + 1, Append(digits, out[i]))
         ELSE <<[digits |-> digits, char |-> out[i]]>> \o TextTokens(out, i + 1, <<>>)

\* The number a sequence of decimal digits stands for.
RECURSIVE DecimalValue(_)
DecimalValue(digits) ==
    IF digits = <<>>
    THEN 0
    ELSE 10 * DecimalValue(SubSeq(digits, 1, Len(digits) - 1))
             + (CHOOSE d \in 0 .. 9 : Digit(d) = digits[Len(digits)])

====
